---- MODULE Spec2Model ----
(***************************************************************************)
(* A model of the Deadlock Map Companion: the crop-region editor of        *)
(* App.tsx, the compositing canvas of components/MapCanvas.tsx, the        *)
(* snapshot analysis of App.tsx and services/geminiService.ts, and the     *)
(* background controller of src/windows/BackgroundWindow.tsx.              *)
(*                                                                         *)
(* JavaScript numbers are modelled as exact rationals extended with the    *)
(* IEEE special values Infinity, -Infinity and NaN (what a division by     *)
(* zero produces).  Rounding of finite doubles is not modelled: finite     *)
(* arithmetic is exact.                                                    *)
(***************************************************************************)
EXTENDS Integers, Sequences, FiniteSets, TLC

VARIABLES
    \* ---- App.tsx: crop editor ----
    videoDim,       \* {w, h}: intrinsic size of the source video
    videoScale,     \* videoDim.w / videoRect.width (= videoDim.h / videoRect.height)
    cropRegion,     \* {x, y, width, height} in source-video pixels
    interaction,    \* {type, handle, startMouse, startCrop}
    isSetupMode,    \* TRUE while the crop editor view is shown
    gestures,       \* number of pointer-downs on the crop box so far
    \* ---- App.tsx: annotation state ----
    drawings,       \* committed strokes
    markers,        \* markers
    activeTool,     \* "PEN" | "MARKER"
    selectedColor,  \* colour of the next stroke
    \* ---- MapCanvas.tsx ----
    isDrawing,      \* a stroke is in progress
    currentPath,    \* pending points of the stroke in progress, as last rendered
    queued,         \* points of setCurrentPath updates React has not rendered yet
    containerSize,  \* {w, h}: clientWidth/clientHeight of the container
    canvasSize,     \* {w, h}: backing size of the canvas
    renderRect,     \* renderRectRef.current: {x, y, w, h}
    drawn,          \* "none" before the first tick, "frame" once a tick has drawn
    frame,          \* what the last execution of render() composited
    clock,          \* Date.now()
    mounted,        \* the canvas view is mounted
    ctxAvail,       \* canvas and its 2d context are available
    rafPending,     \* ids of the pending requestAnimationFrame callbacks
    animationFrameId, \* id of the callback the running loop requested last
    \* ---- App.tsx: snapshot analysis ----
    isAnalyzing,    \* an analysis is running (the Scan button is disabled)
    latestAlert,    \* {n, age}: the alert on display (n = 0: none), seconds shown
    hideTimers,     \* seconds left of each pending setTimeout that hides the alert
    request,        \* {status, response}: the remote call of analyzeMapSnapshot
    analyses,       \* number of analyses started so far
    \* ---- BackgroundWindow.tsx, lib/overwolf.ts ----
    windowShown,    \* [desktop, in_game]: which windows are shown
    windowOps,      \* restore/close calls whose obtain callback is outstanding
    lastGameEvent,  \* "none" | "started" | "ended" (supported game only)
    gameEvents,     \* number of game events delivered so far
    ev              \* the last input event (pointer, toolbar, layout) and its input

vars == <<videoDim, videoScale, cropRegion, interaction, isSetupMode, gestures,
          drawings, markers, activeTool, selectedColor, isDrawing, currentPath,
          queued, containerSize, canvasSize, renderRect, drawn, frame, clock,
          mounted, ctxAvail, rafPending, animationFrameId, isAnalyzing,
          latestAlert, hideTimers, request, analyses, windowShown, windowOps,
          lastGameEvent, gameEvents, ev>>

cropVars == <<videoDim, videoScale, cropRegion, interaction, isSetupMode, gestures>>
storeVars == <<drawings, markers, activeTool, selectedColor>>
strokeVars == <<isDrawing, currentPath, queued>>
surfaceVars == <<containerSize, canvasSize, renderRect, drawn, frame>>
loopVars == <<mounted, ctxAvail, rafPending, animationFrameId>>
canvasVars == <<storeVars, strokeVars, surfaceVars, loopVars, clock>>
analysisVars == <<isAnalyzing, latestAlert, hideTimers, request, analyses>>
backgroundVars == <<windowShown, windowOps, lastGameEvent, gameEvents>>
serviceVars == <<analysisVars, backgroundVars>>

(***************************************************************************)
(* Bounds of the model.                                                    *)
(***************************************************************************)
MaxGestures == 2
MaxStrokes == 1
MaxPoints == 2
MaxMarkers == 2
MaxClock == 1
MaxDim == 3
MaxAnalyses == 2
MaxGameEvents == 3

(***************************************************************************)
(* JavaScript numbers.                                                     *)
(***************************************************************************)
Abs(i) == IF i < 0 THEN -i ELSE i

Sgn(i) == IF i < 0 THEN -1 ELSE IF i > 0 THEN 1 ELSE 0

RECURSIVE GCD(_, _)
GCD(a, b) == IF b = 0 THEN a ELSE GCD(b, a % b)

\* The finite number n/d (d > 0), in lowest terms.
Fin(n, d) ==
    LET g == GCD(Abs(n), d)
    IN  [k |-> "fin", n |-> n \div g, d |-> d \div g]

Num(i) == Fin(i, 1)
PosInf == [k |-> "inf", n |-> 1, d |-> 0]
NegInf == [k |-> "inf", n |-> -1, d |-> 0]
NaN == [k |-> "nan", n |-> 0, d |-> 0]

IsFin(a) == a.k = "fin"
IsNaN(a) == a.k = "nan"
IsZero(a) == a.k = "fin" /\ a.n = 0
SignOf(a) == Sgn(a.n)
InfOf(s) == IF s < 0 THEN NegInf ELSE PosInf

JNeg(a) == IF IsFin(a) THEN Fin(-a.n, a.d)
           ELSE IF IsNaN(a) THEN NaN ELSE InfOf(-a.n)

JAdd(a, b) ==
    IF IsNaN(a) \/ IsNaN(b) THEN NaN
    ELSE IF IsFin(a) /\ IsFin(b) THEN Fin(a.n * b.d + b.n * a.d, a.d * b.d)
    ELSE IF IsFin(a) THEN b
    ELSE IF IsFin(b) THEN a
    ELSE IF a.n = b.n THEN a ELSE NaN

JSub(a, b) == JAdd(a, JNeg(b))

JMul(a, b) ==
    IF IsNaN(a) \/ IsNaN(b) THEN NaN
    ELSE IF IsFin(a) /\ IsFin(b) THEN Fin(a.n * b.n, a.d * b.d)
    ELSE IF IsZero(a) \/ IsZero(b) THEN NaN
    ELSE InfOf(SignOf(a) * SignOf(b))

\* a / b as JavaScript computes it: x/0 is +-Infinity, 0/0 is NaN.
JDiv(a, b) ==
    IF IsNaN(a) \/ IsNaN(b) THEN NaN
    ELSE IF IsFin(b) /\ b.n = 0
         THEN IF IsZero(a) THEN NaN ELSE InfOf(SignOf(a))
    ELSE IF IsFin(a) /\ IsFin(b)
         THEN Fin(a.n * b.d * Sgn(b.n), a.d * Abs(b.n))
    ELSE IF IsFin(a) THEN Num(0)
    ELSE IF IsFin(b) THEN InfOf(SignOf(a) * SignOf(b))
    ELSE NaN

\* a > b: FALSE whenever an operand is NaN.
JGt(a, b) ==
    IF IsNaN(a) \/ IsNaN(b) THEN FALSE
    ELSE IF IsFin(a) /\ IsFin(b) THEN a.n * b.d > b.n * a.d
    ELSE IF IsFin(a) THEN b.n < 0
    ELSE IF IsFin(b) THEN a.n > 0
    ELSE a.n > b.n

\* a === b: NaN equals nothing.
JEq(a, b) == ~IsNaN(a) /\ ~IsNaN(b) /\ a = b

JLe(a, b) == JEq(a, b) \/ JGt(b, a)

Min(a, b) == IF a < b THEN a ELSE b
Max(a, b) == IF a > b THEN a ELSE b

(***************************************************************************)
(* Crop Region Editor (App.tsx).                                           *)
(***************************************************************************)
INITIAL_CROP == [x |-> 0, y |-> 0, width |-> 300, height |-> 300]

minSize == 50

Handles == {"nw", "ne", "sw", "se"}

\* handle.includes(c)
Includes(handle, c) ==
    \/ c = "n" /\ handle \in {"nw", "ne"}
    \/ c = "s" /\ handle \in {"sw", "se"}
    \/ c = "w" /\ handle \in {"nw", "sw"}
    \/ c = "e" /\ handle \in {"ne", "se"}

\* Inputs of the editor: source sizes, display ratios, starting crops and
\* pointer positions (clientX, clientY).
VideoDims == {[w |-> 1920, h |-> 1080], [w |-> 400, h |-> 300]}
VideoScales == {1, 2}
StartCrops == {INITIAL_CROP, [x |-> 100, y |-> 100, width |-> 200, height |-> 200]}
PointerXs == {0, 190}
PointerYs == {0, 190}

InsideSource(c, dim) ==
    /\ 0 <= c.x
    /\ 0 <= c.y
    /\ c.x + c.width <= dim.w
    /\ c.y + c.height <= dim.h

IdleInteraction ==
    [type |-> "idle", handle |-> "none",
     startMouse |-> [x |-> 0, y |-> 0], startCrop |-> INITIAL_CROP]

\* The crop while moving: snapshot + displacement, clamped to the source.
MovedCrop(start, dx, dy, dim) ==
    [start EXCEPT
        !.x = Max(0, Min(start.x + dx, dim.w - start.width)),
        !.y = Max(0, Min(start.y + dy, dim.h - start.height))]

\* Width (height) and x (y) after a resize on `handle`, edge by edge.
ResizedEast(c, start, dx) == [c EXCEPT !.width = Max(minSize, start.width + dx)]

ResizedSouth(c, start, dy) == [c EXCEPT !.height = Max(minSize, start.height + dy)]

\* Mutant: the west edge clamps the width to the minimum instead of rejecting.
ResizedWest_Clamped(c, start, dx) ==
    LET proposedWidth == start.width - dx
    IN  IF proposedWidth >= minSize
        THEN [c EXCEPT !.x = start.x + dx, !.width = proposedWidth]
        ELSE [c EXCEPT !.x = start.x + (start.width - minSize), !.width = minSize]

ResizedWest(c, start, dx) ==
    LET proposedWidth == start.width - dx
    IN  IF proposedWidth >= minSize
        THEN [c EXCEPT !.x = start.x + dx, !.width = proposedWidth]
        ELSE c

\* Mutant: the north edge moves without the minimum-size check.
ResizedNorth_NoFloor(c, start, dy) ==
    [c EXCEPT !.y = start.y + dy, !.height = start.height - dy]

\* Mutant: the north edge moves y without changing the height.
ResizedNorth_KeepHeight(c, start, dy) ==
    LET proposedHeight == start.height - dy
    IN  IF proposedHeight >= minSize
        THEN [c EXCEPT !.y = start.y + dy]
        ELSE c

ResizedNorth(c, start, dy) ==
    LET proposedHeight == start.height - dy
    IN  IF proposedHeight >= minSize
        THEN [c EXCEPT !.y = start.y + dy, !.height = proposedHeight]
        ELSE c

\* Mutant: a pointer-move that violates the minimum on one edge is rejected
\* as a whole.
ResizedCrop_AllOrNothing(start, handle, dx, dy) ==
    LET c1 == IF Includes(handle, "e") THEN ResizedEast(start, start, dx) ELSE start
        c2 == IF Includes(handle, "s") THEN ResizedSouth(c1, start, dy) ELSE c1
        c3 == IF Includes(handle, "w") THEN ResizedWest(c2, start, dx) ELSE c2
        c4 == IF Includes(handle, "n") THEN ResizedNorth(c3, start, dy) ELSE c3
        rejected == \/ Includes(handle, "w") /\ start.width - dx < minSize
                    \/ Includes(handle, "n") /\ start.height - dy < minSize
    IN  IF rejected THEN start ELSE c4

ResizedCrop(start, handle, dx, dy) ==
    LET c1 == IF Includes(handle, "e") THEN ResizedEast(start, start, dx) ELSE start
        c2 == IF Includes(handle, "s") THEN ResizedSouth(c1, start, dy) ELSE c1
        c3 == IF Includes(handle, "w") THEN ResizedWest(c2, start, dx) ELSE c2
        c4 == IF Includes(handle, "n") THEN ResizedNorth(c3, start, dy) ELSE c3
    IN  c4

\* The crop handleGlobalMove passes to setCropRegion.
NewCrop(ia, clientX, clientY, dim, scale) ==
    LET dx == (clientX - ia.startMouse.x) * scale
        dy == (clientY - ia.startMouse.y) * scale
    IN  IF ia.type = "moving" THEN MovedCrop(ia.startCrop, dx, dy, dim)
        ELSE IF ia.type = "resizing" /\ ia.handle \in Handles
             THEN ResizedCrop(ia.startCrop, ia.handle, dx, dy)
        ELSE ia.startCrop

\* onMouseDown of the crop box.
handleMouseDownBox(clientX, clientY) ==
    /\ isSetupMode
    /\ gestures < MaxGestures
    /\ interaction' = [type |-> "moving", handle |-> "none",
                       startMouse |-> [x |-> clientX, y |-> clientY],
                       startCrop |-> cropRegion]
    /\ gestures' = gestures + 1
    /\ ev' = [op |-> "MouseDownBox", x |-> clientX, y |-> clientY]
    /\ UNCHANGED <<videoDim, videoScale, cropRegion, isSetupMode, canvasVars>>
    /\ UNCHANGED serviceVars

\* onMouseDown of a corner handle.
handleMouseDownHandle(handle, clientX, clientY) ==
    /\ isSetupMode
    /\ gestures < MaxGestures
    /\ interaction' = [type |-> "resizing", handle |-> handle,
                       startMouse |-> [x |-> clientX, y |-> clientY],
                       startCrop |-> cropRegion]
    /\ gestures' = gestures + 1
    /\ ev' = [op |-> "MouseDownHandle", x |-> clientX, y |-> clientY]
    /\ UNCHANGED <<videoDim, videoScale, cropRegion, isSetupMode, canvasVars>>
    /\ UNCHANGED serviceVars

\* Mutant: the pointer-move handler does not look at the setup view.
handleGlobalMove_NoViewCheck(clientX, clientY) ==
    /\ ev' = [op |-> "GlobalMove", x |-> clientX, y |-> clientY]
    /\ IF interaction.type = "idle"
       THEN cropRegion' = cropRegion
       ELSE cropRegion' = NewCrop(interaction, clientX, clientY, videoDim, videoScale)
    /\ UNCHANGED <<videoDim, videoScale, interaction, isSetupMode, gestures, canvasVars>>
    /\ UNCHANGED serviceVars

\* window mousemove.  While idle no listener is registered and the handler
\* itself returns at once; setupVideoRef.current is the video element of the
\* setup view, null in every other view.
handleGlobalMove(clientX, clientY) ==
    /\ ev' = [op |-> "GlobalMove", x |-> clientX, y |-> clientY]
    /\ IF interaction.type = "idle" \/ ~isSetupMode
       THEN cropRegion' = cropRegion
       ELSE cropRegion' = NewCrop(interaction, clientX, clientY, videoDim, videoScale)
    /\ UNCHANGED <<videoDim, videoScale, interaction, isSetupMode, gestures, canvasVars>>
    /\ UNCHANGED serviceVars

\* Mutant: the pointer-up is observed on the setup view only.
handleGlobalUp_InView ==
    /\ interaction.type # "idle"
    /\ isSetupMode
    /\ interaction' = [interaction EXCEPT !.type = "idle"]
    /\ ev' = [op |-> "GlobalUp", x |-> 0, y |-> 0]
    /\ UNCHANGED <<videoDim, videoScale, cropRegion, isSetupMode, gestures, canvasVars>>
    /\ UNCHANGED serviceVars

\* window mouseup; the listener is registered while a gesture is active.
handleGlobalUp ==
    /\ interaction.type # "idle"
    /\ interaction' = [interaction EXCEPT !.type = "idle"]
    /\ ev' = [op |-> "GlobalUp", x |-> 0, y |-> 0]
    /\ UNCHANGED <<videoDim, videoScale, cropRegion, isSetupMode, gestures, canvasVars>>
    /\ UNCHANGED serviceVars



(***************************************************************************)
(* Coordinate mapping (MapCanvas.tsx).                                     *)
(***************************************************************************)
\* Position of the canvas in the window (getBoundingClientRect: the canvas
\* fills <main>, to the right of the 80px sidebar).
RectLeft == 80
RectTop == 0

\* Mutant: the fit compares the aspect ratios the wrong way round.
Placement_Swapped(cw, ch, cropW, cropH) ==
    LET cropAspect == JDiv(cropW, cropH)
        canvasAspect == JDiv(cw, ch)
    IN  IF JGt(cropAspect, canvasAspect)
        THEN LET drawW == JMul(ch, cropAspect)
             IN  [x |-> JDiv(JSub(cw, drawW), Num(2)), y |-> Num(0), w |-> drawW, h |-> ch]
        ELSE LET drawH == JDiv(cw, cropAspect)
             IN  [x |-> Num(0), y |-> JDiv(JSub(ch, drawH), Num(2)), w |-> cw, h |-> drawH]

\* Aspect fit of the crop into the canvas: {drawX, drawY, drawW, drawH}.
Placement(cw, ch, cropW, cropH) ==
    LET cropAspect == JDiv(cropW, cropH)
        canvasAspect == JDiv(cw, ch)
    IN  IF JGt(canvasAspect, cropAspect)
        THEN LET drawW == JMul(ch, cropAspect)
             IN  [x |-> JDiv(JSub(cw, drawW), Num(2)), y |-> Num(0), w |-> drawW, h |-> ch]
        ELSE LET drawH == JDiv(cw, cropAspect)
             IN  [x |-> Num(0), y |-> JDiv(JSub(ch, drawH), Num(2)), w |-> cw, h |-> drawH]

\* The divisions Placement performs whose divisor is zero.
PlacementDividesByZero(cw, ch, cropW, cropH) ==
    LET cropAspect == JDiv(cropW, cropH)
        canvasAspect == JDiv(cw, ch)
    IN  \/ IsZero(cropH)
        \/ IsZero(ch)
        \/ ~JGt(canvasAspect, cropAspect) /\ IsZero(cropAspect)

\* Normalized point to canvas pixel.
toScreen(p, rr) ==
    [x |-> JAdd(rr.x, JMul(p.x, rr.w)), y |-> JAdd(rr.y, JMul(p.y, rr.h))]

\* Mutant: the pointer position is not made relative to the canvas.
getNormalizedPoint_ClientCoords(clientX, clientY, rr) ==
    IF JEq(rr.w, Num(0)) \/ JEq(rr.h, Num(0)) THEN {}
    ELSE {[x |-> JDiv(JSub(clientX, rr.x), rr.w),
           y |-> JDiv(JSub(clientY, rr.y), rr.h)]}

\* Pointer position (clientX, clientY) to normalized point; the empty set
\* stands for null.
\* Mutant: the normalized coordinates are clamped to [0, 1].
Clamped01(v) == IF JGt(Num(0), v) THEN Num(0) ELSE IF JGt(v, Num(1)) THEN Num(1) ELSE v

getNormalizedPoint_Clamped(clientX, clientY, rr) ==
    IF JEq(rr.w, Num(0)) \/ JEq(rr.h, Num(0)) THEN {}
    ELSE LET mouseX == JSub(clientX, Num(RectLeft))
             mouseY == JSub(clientY, Num(RectTop))
         IN  {[x |-> Clamped01(JDiv(JSub(mouseX, rr.x), rr.w)),
               y |-> Clamped01(JDiv(JSub(mouseY, rr.y), rr.h))]}

getNormalizedPoint(clientX, clientY, rr) ==
    IF JEq(rr.w, Num(0)) \/ JEq(rr.h, Num(0)) THEN {}
    ELSE LET mouseX == JSub(clientX, Num(RectLeft))
             mouseY == JSub(clientY, Num(RectTop))
         IN  {[x |-> JDiv(JSub(mouseX, rr.x), rr.w),
               y |-> JDiv(JSub(mouseY, rr.y), rr.h)]}

(***************************************************************************)
(* Render loop (MapCanvas.tsx, the animation loop effect).                 *)
(***************************************************************************)
ZeroRect == [x |-> Num(0), y |-> Num(0), w |-> Num(0), h |-> Num(0)]
DefaultCanvasSize == [w |-> 300, h |-> 150]

\* requestAnimationFrame: an id that is not pending.
NewRafId(pending) == CHOOSE i \in 1..(Cardinality(pending) + 1) : i \notin pending

\* Mutant: the markers are left out of the frame.
Composite_NoMarkers(crop, ds, path, ms) ==
    [cropRegion |-> crop, drawings |-> ds, currentPath |-> path, markers |-> <<>>]

\* What render() composites: the crop region, the committed strokes, the
\* stroke in progress and the markers its closure holds.
Composite(crop, ds, path, ms) ==
    [cropRegion |-> crop, drawings |-> ds, currentPath |-> path, markers |-> ms]

\* A canvas nothing was drawn on.
NoFrame == Composite([x |-> 0, y |-> 0, width |-> 0, height |-> 0], <<>>, <<>>, <<>>)

\* One execution of render(): resize the canvas to its container, publish
\* the placement, draw, request the next frame.  render() is the closure of
\* the latest run of the effect, so it draws the props and state of the
\* latest React render.
RenderFrame(crop, pending) ==
    LET id == NewRafId(pending)
    IN  /\ canvasSize' = containerSize
        /\ renderRect' = Placement(Num(containerSize.w), Num(containerSize.h),
                                   Num(crop.width), Num(crop.height))
        /\ drawn' = "frame"
        /\ frame' = Composite(crop, drawings', currentPath', markers')
        /\ rafPending' = pending \cup {id}
        /\ animationFrameId' = id

\* Mutant: the effect runs again without its cleanup cancelling the pending
\* frame.
LoopRestart_NoCancel ==
    IF ctxAvail
    THEN RenderFrame(cropRegion, rafPending)
    ELSE /\ rafPending' = rafPending
         /\ animationFrameId' = 0
         /\ UNCHANGED <<canvasSize, renderRect, drawn, frame>>

\* The effect after a change of one of its dependencies: the cleanup cancels
\* the pending frame, then the effect body runs.
LoopRestart ==
    LET kept == rafPending \ {animationFrameId}
    IN  IF ctxAvail
        THEN RenderFrame(cropRegion, kept)
        ELSE /\ rafPending' = kept
             /\ animationFrameId' = 0
             /\ UNCHANGED <<canvasSize, renderRect, drawn, frame>>

\* A pending requestAnimationFrame callback runs.
RenderTick ==
    /\ UNCHANGED <<cropVars, storeVars, strokeVars, containerSize, clock, mounted,
                   ctxAvail, ev>>
    /\ \E id \in rafPending : RenderFrame(cropRegion, rafPending \ {id})
    /\ UNCHANGED serviceVars

\* The browser lays the container out at a new size.
ContainerResize(w, h) ==
    /\ mounted
    /\ containerSize # [w |-> w, h |-> h]
    /\ containerSize' = [w |-> w, h |-> h]
    /\ ev' = [op |-> "ContainerResize", x |-> w, y |-> h]
    /\ UNCHANGED <<cropVars, storeVars, strokeVars, canvasSize, renderRect, drawn,
                   frame, clock, loopVars>>
    /\ UNCHANGED serviceVars

\* The canvas context becomes available.
SurfaceReady ==
    /\ mounted
    /\ ~ctxAvail
    /\ ctxAvail' = TRUE
    /\ ev' = [op |-> "SurfaceReady", x |-> 0, y |-> 0]
    /\ UNCHANGED <<cropVars, storeVars, strokeVars, surfaceVars, clock, mounted,
                   rafPending, animationFrameId>>
    /\ UNCHANGED serviceVars

\* The Confirm button: the setup view is replaced by the main view, MapCanvas
\* mounts with fresh local state and its effects run.
Confirm ==
    /\ isSetupMode
    /\ isSetupMode' = FALSE
    /\ mounted' = TRUE
    /\ isDrawing' = FALSE
    /\ currentPath' = <<>>
    /\ queued' = <<>>
    /\ UNCHANGED <<videoDim, videoScale, cropRegion, interaction, gestures,
                   storeVars, containerSize, clock, ctxAvail>>
    /\ IF ctxAvail
       THEN RenderFrame(cropRegion, {})
       ELSE /\ canvasSize' = DefaultCanvasSize
            /\ renderRect' = ZeroRect
            /\ drawn' = "none"
            /\ frame' = NoFrame
            /\ rafPending' = {}
            /\ animationFrameId' = 0
    /\ ev' = [op |-> "Confirm", x |-> 0, y |-> 0]
    /\ UNCHANGED serviceVars

\* Mutant: entering the setup view drops the annotations.
Adjust_ClearsAnnotations ==
    /\ ~isSetupMode
    /\ mounted
    /\ isSetupMode' = TRUE
    /\ mounted' = FALSE
    /\ rafPending' = rafPending \ {animationFrameId}
    /\ animationFrameId' = 0
    /\ isDrawing' = FALSE
    /\ currentPath' = <<>>
    /\ queued' = <<>>
    /\ canvasSize' = DefaultCanvasSize
    /\ renderRect' = ZeroRect
    /\ drawn' = "none"
    /\ frame' = NoFrame
    /\ drawings' = <<>>
    /\ markers' = <<>>
    /\ ev' = [op |-> "Adjust", x |-> 0, y |-> 0]
    /\ UNCHANGED <<videoDim, videoScale, cropRegion, interaction, gestures,
                   activeTool, selectedColor, containerSize, clock, ctxAvail>>
    /\ UNCHANGED serviceVars

\* The Adjust button: MapCanvas unmounts, the effect cleanup cancels the
\* pending frame and the local state of the canvas is dropped.
Adjust ==
    /\ ~isSetupMode
    /\ mounted
    /\ isSetupMode' = TRUE
    /\ mounted' = FALSE
    /\ rafPending' = rafPending \ {animationFrameId}
    /\ animationFrameId' = 0
    /\ isDrawing' = FALSE
    /\ currentPath' = <<>>
    /\ queued' = <<>>
    /\ canvasSize' = DefaultCanvasSize
    /\ renderRect' = ZeroRect
    /\ drawn' = "none"
    /\ frame' = NoFrame
    /\ ev' = [op |-> "Adjust", x |-> 0, y |-> 0]
    /\ UNCHANGED <<videoDim, videoScale, cropRegion, interaction, gestures,
                   storeVars, containerSize, clock, ctxAvail>>
    /\ UNCHANGED serviceVars


(***************************************************************************)
(* Input handlers of the canvas and the toolbar (MapCanvas.tsx, App.tsx).  *)
(***************************************************************************)
Tools == {"PEN", "MARKER"}
Colors == {"#ef4444", "#22c55e"}
\* Pointer positions on the drawing surface, in canvas pixels.
ClickXs == {50, 400}
ClickYs == {300}
\* Positions the pointer is dragged to during a stroke.
MoveXs == {50}

\* Mutant: the marker tool places a marker of kind move.
NewMarker_Move(id, point) == [id |-> id, x |-> point.x, y |-> point.y, type |-> "move"]

NewMarker(id, point) == [id |-> id, x |-> point.x, y |-> point.y, type |-> "danger"]

\* onMouseDown of the canvas.
handleMouseDown(px, py) ==
    /\ mounted
    /\ ev' = [op |-> "MouseDown", x |-> px, y |-> py]
    /\ LET pts == getNormalizedPoint(Num(px + RectLeft), Num(py + RectTop), renderRect)
       IN  IF pts = {}
           THEN UNCHANGED <<storeVars, strokeVars, surfaceVars, rafPending, animationFrameId>>
           ELSE LET point == CHOOSE q \in pts : TRUE
                IN  IF activeTool = "PEN"
                    THEN /\ isDrawing' = TRUE
                         /\ currentPath' = <<point>>
                         /\ queued' = <<>>
                         /\ UNCHANGED <<containerSize, storeVars>>
                         /\ LoopRestart
                    ELSE IF activeTool = "MARKER"
                    THEN /\ Len(markers) < MaxMarkers
                         /\ markers' = Append(markers, NewMarker(clock, point))
                         /\ UNCHANGED <<containerSize, drawings, activeTool,
                                        selectedColor, strokeVars>>
                         /\ LoopRestart
                    ELSE UNCHANGED <<storeVars, strokeVars, surfaceVars, rafPending,
                                     animationFrameId>>
    /\ UNCHANGED <<cropVars, clock, mounted, ctxAvail>>
    /\ UNCHANGED serviceVars

\* Mutant: the pointer-move extends the stroke whatever tool is active.
handleMouseMove_NoToolCheck(px, py) ==
    /\ mounted
    /\ ev' = [op |-> "MouseMove", x |-> px, y |-> py]
    /\ UNCHANGED <<cropVars, storeVars, clock, mounted, ctxAvail>>
    /\ LET pts == getNormalizedPoint(Num(px + RectLeft), Num(py + RectTop), renderRect)
       IN  IF ~isDrawing \/ pts = {}
           THEN UNCHANGED <<strokeVars, surfaceVars, rafPending, animationFrameId>>
           ELSE /\ Len(currentPath) + Len(queued) < MaxPoints
                /\ currentPath' = Append(currentPath \o queued, CHOOSE q \in pts : TRUE)
                /\ queued' = <<>>
                /\ UNCHANGED <<containerSize, isDrawing>>
                /\ LoopRestart
    /\ UNCHANGED serviceVars

\* onMouseMove of the canvas, React rendering the update before the next
\* event: setCurrentPath(prev => [...prev, point]) is applied after the
\* updates still queued.
handleMouseMove(px, py) ==
    /\ mounted
    /\ ev' = [op |-> "MouseMove", x |-> px, y |-> py]
    /\ UNCHANGED <<cropVars, storeVars, clock, mounted, ctxAvail>>
    /\ LET pts == getNormalizedPoint(Num(px + RectLeft), Num(py + RectTop), renderRect)
       IN  IF ~isDrawing \/ activeTool # "PEN" \/ pts = {}
           THEN UNCHANGED <<strokeVars, surfaceVars, rafPending, animationFrameId>>
           ELSE /\ Len(currentPath) + Len(queued) < MaxPoints
                /\ currentPath' = Append(currentPath \o queued, CHOOSE q \in pts : TRUE)
                /\ queued' = <<>>
                /\ UNCHANGED <<containerSize, isDrawing>>
                /\ LoopRestart
    /\ UNCHANGED serviceVars

\* Mutant: a stroke of a single point is committed too.
CommitsStroke_Any(path) == Len(path) > 0

\* handleMouseUp commits the in-progress stroke only with more than one point.
CommitsStroke(path) == Len(path) > 1

\* handleMouseUp: onMouseUp and onMouseLeave of the canvas.
handleMouseUp(op) ==
    /\ mounted
    /\ ev' = [op |-> op, x |-> 0, y |-> 0]
    /\ IF isDrawing /\ activeTool = "PEN"
       THEN /\ isDrawing' = FALSE
            /\ IF CommitsStroke(currentPath)
               THEN /\ Len(drawings) < MaxStrokes
                    /\ drawings' = Append(drawings,
                          [points |-> currentPath, color |-> selectedColor, width |-> 4])
               ELSE drawings' = drawings
            /\ currentPath' = <<>>
            /\ queued' = <<>>
            /\ UNCHANGED <<containerSize, markers, activeTool, selectedColor>>
            /\ LoopRestart
       ELSE UNCHANGED <<storeVars, strokeVars, surfaceVars, rafPending, animationFrameId>>
    /\ UNCHANGED <<cropVars, clock, mounted, ctxAvail>>
    /\ UNCHANGED serviceVars

\* Mutant: Clear forgets the markers.
ClearedStore_KeepMarkers(ds, ms) == [drawings |-> <<>>, markers |-> ms]

\* setDrawings([]); setMarkers([])
ClearedStore(ds, ms) == [drawings |-> <<>>, markers |-> <<>>]

\* The Clear button of the toolbar.
Clear ==
    /\ mounted
    /\ drawings' = ClearedStore(drawings, markers).drawings
    /\ markers' = ClearedStore(drawings, markers).markers
    /\ UNCHANGED <<cropVars, activeTool, selectedColor, strokeVars, containerSize,
                   clock, mounted, ctxAvail>>
    /\ LoopRestart
    /\ ev' = [op |-> "Clear", x |-> 0, y |-> 0]
    /\ UNCHANGED serviceVars

\* The Pen and Ping buttons of the toolbar.
SetActiveTool(t) ==
    /\ mounted
    /\ activeTool # t
    /\ activeTool' = t
    /\ ev' = [op |-> "SetActiveTool", x |-> 0, y |-> 0]
    /\ UNCHANGED <<cropVars, drawings, markers, selectedColor, strokeVars,
                   surfaceVars, clock, loopVars>>
    /\ UNCHANGED serviceVars

\* Mutant: choosing a colour recolours the committed strokes too.
SetSelectedColor_Recolors(c) ==
    /\ mounted
    /\ selectedColor # c
    /\ selectedColor' = c
    /\ drawings' = [i \in 1..Len(drawings) |-> [drawings[i] EXCEPT !.color = c]]
    /\ UNCHANGED <<cropVars, markers, activeTool, strokeVars,
                   containerSize, clock, mounted, ctxAvail>>
    /\ LoopRestart
    /\ ev' = [op |-> "SetSelectedColor", x |-> 0, y |-> 0]
    /\ UNCHANGED serviceVars

\* The colour buttons of the toolbar.
SetSelectedColor(c) ==
    /\ mounted
    /\ selectedColor # c
    /\ selectedColor' = c
    /\ UNCHANGED <<cropVars, drawings, markers, activeTool, strokeVars,
                   containerSize, clock, mounted, ctxAvail>>
    /\ LoopRestart
    /\ ev' = [op |-> "SetSelectedColor", x |-> 0, y |-> 0]
    /\ UNCHANGED serviceVars

\* Time passes: Date.now() advances.
ClockTick ==
    /\ clock < MaxClock
    /\ clock' = clock + 1
    /\ UNCHANGED <<cropVars, storeVars, strokeVars, surfaceVars, loopVars, ev>>
    /\ UNCHANGED serviceVars

\* onMouseMove of the canvas while a stroke is drawn with the pen, the next
\* event arriving before React has rendered the update: the point waits in
\* the update queue and the handlers keep the closure of the last render.
handleMouseMoveDeferred(px, py) ==
    /\ mounted
    /\ isDrawing
    /\ activeTool = "PEN"
    /\ LET pts == getNormalizedPoint(Num(px + RectLeft), Num(py + RectTop), renderRect)
       IN  /\ pts # {}
           /\ Len(currentPath) + Len(queued) < MaxPoints
           /\ queued' = Append(queued, CHOOSE q \in pts : TRUE)
    /\ ev' = [op |-> "MouseMove", x |-> px, y |-> py]
    /\ UNCHANGED <<cropVars, storeVars, isDrawing, currentPath, surfaceVars,
                   loopVars, clock>>
    /\ UNCHANGED serviceVars

\* React renders the queued updates and the effect of the loop runs again.
RenderQueued ==
    /\ mounted
    /\ queued # <<>>
    /\ currentPath' = currentPath \o queued
    /\ queued' = <<>>
    /\ UNCHANGED <<cropVars, storeVars, isDrawing, containerSize, clock, mounted,
                   ctxAvail, ev>>
    /\ LoopRestart
    /\ UNCHANGED serviceVars

(***************************************************************************)
(* Snapshot analysis (App.tsx handleAnalyze, geminiService.ts).            *)
(***************************************************************************)
\* The delay of the hide timer, in seconds: setTimeout(..., 5000).
HideDelay == 5

\* What the remote call can give: JSON with a non-empty string, JSON with two
\* empty strings, no text, text that is not JSON, a rejection.
Responses == {"alert", "blank", "empty", "unparsable", "error"}

\* analyzeMapSnapshot with an API key configured: the alert, {} for null.
analyzeMapSnapshot(response) ==
    IF response = "error" THEN {}
    ELSE IF response = "empty" THEN {}
    ELSE IF response = "unparsable" THEN {}
    ELSE IF response = "blank" THEN {}
    ELSE {[voice |-> "voice", text |-> "text"]}

NoAlert == [n |-> 0, age |-> 0]
NoRequest == [status |-> "idle", response |-> "none"]

\* Mutant: the Scan button is re-enabled only when an alert came back.
StillAnalyzing_OnNull(result) == result = {}

\* setIsAnalyzing(false) runs whatever the result: the value of isAnalyzing
\* once handleAnalyze has returned.
StillAnalyzing(result) == FALSE

\* The Scan button (disabled while an analysis runs): handleAnalyze up to
\* its await.
handleAnalyze ==
    /\ mounted
    /\ ~isAnalyzing
    /\ analyses < MaxAnalyses
    /\ isAnalyzing' = TRUE
    /\ request' = [status |-> "pending", response |-> "none"]
    /\ analyses' = analyses + 1
    /\ ev' = [op |-> "Analyze", x |-> 0, y |-> 0]
    /\ UNCHANGED <<cropVars, canvasVars, latestAlert, hideTimers, backgroundVars>>

\* The remote call settles and handleAnalyze resumes after its await.
AnalysisSettles(response) ==
    /\ request.status = "pending"
    /\ request' = [status |-> "idle", response |-> response]
    /\ LET result == analyzeMapSnapshot(response)
       IN  /\ IF result # {}
              THEN /\ latestAlert' = [n |-> analyses, age |-> 0]
                   /\ hideTimers' = Append(hideTimers, HideDelay)
              ELSE UNCHANGED <<latestAlert, hideTimers>>
           /\ isAnalyzing' = StillAnalyzing(result)
    /\ ev' = [op |-> "AnalysisSettles", x |-> 0, y |-> 0]
    /\ UNCHANGED <<cropVars, canvasVars, analyses, backgroundVars>>

\* A hide timer that is due runs: setLatestAlert(null).
HideTimerFires ==
    /\ \E i \in 1..Len(hideTimers) :
          /\ hideTimers[i] = 0
          /\ hideTimers' = SubSeq(hideTimers, 1, i - 1)
                              \o SubSeq(hideTimers, i + 1, Len(hideTimers))
    /\ latestAlert' = NoAlert
    /\ ev' = [op |-> "HideTimer", x |-> latestAlert.n, y |-> latestAlert.age]
    /\ UNCHANGED <<cropVars, canvasVars, isAnalyzing, request, analyses,
                   backgroundVars>>

\* One second passes; timers that are due run first.
Second ==
    /\ hideTimers # <<>>
    /\ \A i \in 1..Len(hideTimers) : hideTimers[i] > 0
    /\ hideTimers' = [i \in 1..Len(hideTimers) |-> hideTimers[i] - 1]
    /\ latestAlert' = IF latestAlert.n = 0 THEN latestAlert
                      ELSE [latestAlert EXCEPT !.age = @ + 1]
    /\ UNCHANGED <<cropVars, canvasVars, isAnalyzing, request, analyses,
                   backgroundVars, ev>>

(***************************************************************************)
(* Background controller (BackgroundWindow.tsx, lib/overwolf.ts).          *)
(***************************************************************************)
Windows == {"desktop", "in_game"}

\* The window calls toggleWindows makes for a game that is running or not.
ToggleOps(isRunning, n) ==
    IF isRunning
    THEN {[n |-> n, win |-> "desktop", kind |-> "close"],
          [n |-> n, win |-> "in_game", kind |-> "restore"]}
    ELSE {[n |-> n, win |-> "desktop", kind |-> "restore"],
          [n |-> n, win |-> "in_game", kind |-> "close"]}

\* onGameStarted / onGameEnded: toggleWindows(info).  The promises restore()
\* and close() return are not awaited.
toggleWindows(isRunning, supported) ==
    /\ gameEvents < MaxGameEvents
    /\ gameEvents' = gameEvents + 1
    /\ IF ~supported
       THEN UNCHANGED <<windowOps, lastGameEvent>>
       ELSE /\ windowOps' = windowOps \cup ToggleOps(isRunning, gameEvents + 1)
            /\ lastGameEvent' = IF isRunning THEN "started" ELSE "ended"
    /\ ev' = [op |-> "GameEvent", x |-> 0, y |-> 0]
    /\ UNCHANGED <<cropVars, canvasVars, analysisVars, windowShown>>

\* The obtainDeclaredWindow callback of one outstanding restore() or close()
\* arrives: the call continues after assureObtained and asks Overwolf to
\* restore or close the window.
WindowOpRuns(op) ==
    /\ op \in windowOps
    /\ windowOps' = windowOps \ {op}
    /\ windowShown' = [windowShown EXCEPT ![op.win] = (op.kind = "restore")]
    /\ UNCHANGED <<cropVars, canvasVars, analysisVars, lastGameEvent, gameEvents, ev>>

\* No analysis was started; the background controller has started with no
\* game running and has restored the desktop window.
ServicesIdle ==
    /\ isAnalyzing = FALSE
    /\ latestAlert = NoAlert
    /\ hideTimers = <<>>
    /\ request = NoRequest
    /\ analyses = 0
    /\ windowShown = [desktop |-> TRUE, in_game |-> FALSE]
    /\ windowOps = {}
    /\ lastGameEvent = "none"
    /\ gameEvents = 0

\* The canvas view before it is mounted (useState/useRef initial values).
CanvasUnmounted ==
    /\ drawings = <<>>
    /\ markers = <<>>
    /\ activeTool = "PEN"
    /\ selectedColor = "#ef4444"
    /\ isDrawing = FALSE
    /\ currentPath = <<>>
    /\ queued = <<>>
    /\ canvasSize = DefaultCanvasSize
    /\ renderRect = ZeroRect
    /\ drawn = "none"
    /\ frame = NoFrame
    /\ clock = 0
    /\ mounted = FALSE
    /\ rafPending = {}
    /\ animationFrameId = 0

\* The setup view with a crop region inside the source video.
CropInit ==
    /\ videoDim \in VideoDims
    /\ videoScale \in VideoScales
    /\ cropRegion \in {c \in StartCrops :
            InsideSource(c, videoDim) /\ c.width >= minSize /\ c.height >= minSize}
    /\ interaction = IdleInteraction
    /\ isSetupMode = TRUE
    /\ gestures = 0
    /\ ev = [op |-> "Init", x |-> 0, y |-> 0]
    /\ containerSize = [w |-> 800, h |-> 600]
    /\ ctxAvail = TRUE
    /\ CanvasUnmounted
    /\ ServicesIdle

CropNext ==
    \/ \E x \in PointerXs, y \in PointerYs : handleMouseDownBox(x, y)
    \/ \E h \in Handles, x \in PointerXs, y \in PointerYs : handleMouseDownHandle(h, x, y)
    \/ \E x \in PointerXs, y \in PointerYs : handleGlobalMove(x, y)
    \/ handleGlobalUp

SpecCrop == CropInit /\ [][CropNext]_vars

\* Resize gestures on one crop region, with pointer positions on both sides
\* of the minimum-size threshold.
DragPositions == {0, 100, 190}

ResizeInit ==
    /\ videoDim = [w |-> 1920, h |-> 1080]
    /\ videoScale = 1
    /\ cropRegion = [x |-> 100, y |-> 100, width |-> 200, height |-> 200]
    /\ interaction = IdleInteraction
    /\ isSetupMode = TRUE
    /\ gestures = 0
    /\ ev = [op |-> "Init", x |-> 0, y |-> 0]
    /\ containerSize = [w |-> 800, h |-> 600]
    /\ ctxAvail = TRUE
    /\ CanvasUnmounted
    /\ ServicesIdle

ResizeNext ==
    \/ \E h \in Handles, p \in PointerXs : handleMouseDownHandle(h, p, p)
    \/ \E x \in DragPositions, y \in DragPositions : handleGlobalMove(x, y)
    \/ handleGlobalUp

SpecResize == ResizeInit /\ [][ResizeNext]_vars

\* The last event was a pointer-move of a resize gesture on a handle that
\* contains edge c, handled in the setup view.
ResizeMoved(c) ==
    /\ ev.op = "GlobalMove"
    /\ isSetupMode
    /\ interaction.type = "resizing"
    /\ Includes(interaction.handle, c)

EvDx == (ev.x - interaction.startMouse.x) * videoScale
EvDy == (ev.y - interaction.startMouse.y) * videoScale

\* C1: after any sequence of move and resize gestures the crop region lies
\* inside the source video: 0 <= x, 0 <= y, x + width <= sourceWidth and
\* y + height <= sourceHeight.
C1_CropInsideSource == InsideSource(cropRegion, videoDim)

\* C2: after any sequence of move and resize gestures the width and the
\* height of the crop region are at least the minimum size.
C2_MinSize == cropRegion.width >= minSize /\ cropRegion.height >= minSize

\* A west or north resize whose drag would shrink the region below the minimum.
C2_Witness ==
    \/ ResizeMoved("w") /\ interaction.startCrop.width - EvDx < minSize
    \/ ResizeMoved("n") /\ interaction.startCrop.height - EvDy < minSize

\* C3 as stated: a west (north) resize that would shrink the width (height)
\* below the minimum leaves the width (height) equal to the minimum, and x (y)
\* not past start + (size - minSize).
C3_ClampedToMin ==
    /\ (ResizeMoved("w") /\ interaction.startCrop.width - EvDx < minSize)
        => /\ cropRegion.width = minSize
           /\ cropRegion.x <= interaction.startCrop.x + (interaction.startCrop.width - minSize)
    /\ (ResizeMoved("n") /\ interaction.startCrop.height - EvDy < minSize)
        => /\ cropRegion.height = minSize
           /\ cropRegion.y <= interaction.startCrop.y + (interaction.startCrop.height - minSize)

\* C3 amended: a west (north) resize that would shrink the width (height)
\* below the minimum is rejected: width and x (height and y) keep the values
\* of the snapshot, so the width stays at least the minimum and x does not
\* move past x_start + (w_start - minSize).
C3_EdgeRejected ==
    /\ (ResizeMoved("w") /\ interaction.startCrop.width - EvDx < minSize)
        => /\ cropRegion.width = interaction.startCrop.width
           /\ cropRegion.x = interaction.startCrop.x
           /\ cropRegion.width >= minSize
           /\ cropRegion.x <= interaction.startCrop.x + (interaction.startCrop.width - minSize)
    /\ (ResizeMoved("n") /\ interaction.startCrop.height - EvDy < minSize)
        => /\ cropRegion.height = interaction.startCrop.height
           /\ cropRegion.y = interaction.startCrop.y
           /\ cropRegion.height >= minSize
           /\ cropRegion.y <= interaction.startCrop.y + (interaction.startCrop.height - minSize)

\* The example of C3: crop {100,100,200,200}, handle nw, drag (190, 0).
C3_Witness ==
    /\ ResizeMoved("w")
    /\ interaction.handle = "nw"
    /\ interaction.startCrop = [x |-> 100, y |-> 100, width |-> 200, height |-> 200]
    /\ EvDx = 190
    /\ EvDy = 0

\* s is an initial part of t.
IsPrefix(s, t) == Len(s) <= Len(t) /\ SubSeq(t, 1, Len(s)) = s

(***************************************************************************)
(* Claims about resize and move gestures (SpecResize, SpecCrop).           *)
(***************************************************************************)
\* The last event was a pointer-move of a resize gesture in the setup view.
ResizeMovedAny ==
    /\ ev.op = "GlobalMove"
    /\ isSetupMode
    /\ interaction.type = "resizing"

\* The width, height, x and y the last pointer-move proposes.
ProposedWidth ==
    IF Includes(interaction.handle, "w") THEN interaction.startCrop.width - EvDx
    ELSE interaction.startCrop.width + EvDx

ProposedHeight ==
    IF Includes(interaction.handle, "n") THEN interaction.startCrop.height - EvDy
    ELSE interaction.startCrop.height + EvDy

ProposedX ==
    IF Includes(interaction.handle, "w") THEN interaction.startCrop.x + EvDx
    ELSE interaction.startCrop.x

ProposedY ==
    IF Includes(interaction.handle, "n") THEN interaction.startCrop.y + EvDy
    ELSE interaction.startCrop.y

\* C15 as stated: on every corner handle, a pointer-move whose proposed width
\* is below the minimum while its proposed height is not leaves x and width
\* at the snapshot (the horizontal change is rejected) and applies the
\* vertical change; and the reverse.
C15_OtherAxisRejected ==
    ResizeMovedAny =>
        /\ (ProposedWidth < minSize /\ ProposedHeight >= minSize)
            => /\ cropRegion.x = interaction.startCrop.x
               /\ cropRegion.width = interaction.startCrop.width
               /\ cropRegion.y = ProposedY
               /\ cropRegion.height = ProposedHeight
        /\ (ProposedHeight < minSize /\ ProposedWidth >= minSize)
            => /\ cropRegion.y = interaction.startCrop.y
               /\ cropRegion.height = interaction.startCrop.height
               /\ cropRegion.x = ProposedX
               /\ cropRegion.width = ProposedWidth

\* C15 amended: the violating horizontal change is rejected on the west edge
\* (x and width of the snapshot) and clamped on the east edge (x of the
\* snapshot, width equal to the minimum), and the vertical change of the same
\* pointer-move is applied; and the reverse with north and south.
C15_EdgeIndependence ==
    ResizeMovedAny =>
        /\ (ProposedWidth < minSize /\ ProposedHeight >= minSize)
            => /\ cropRegion.x = interaction.startCrop.x
               /\ cropRegion.width = IF Includes(interaction.handle, "w")
                                     THEN interaction.startCrop.width ELSE minSize
               /\ cropRegion.y = ProposedY
               /\ cropRegion.height = ProposedHeight
        /\ (ProposedHeight < minSize /\ ProposedWidth >= minSize)
            => /\ cropRegion.y = interaction.startCrop.y
               /\ cropRegion.height = IF Includes(interaction.handle, "n")
                                      THEN interaction.startCrop.height ELSE minSize
               /\ cropRegion.x = ProposedX
               /\ cropRegion.width = ProposedWidth

\* A pointer-move on nw with dx too large and a valid dy that moved the north
\* edge.
C15_Witness ==
    /\ ResizeMovedAny
    /\ interaction.handle = "nw"
    /\ ProposedWidth < minSize
    /\ ProposedHeight >= minSize
    /\ EvDy # 0
    /\ cropRegion.y = interaction.startCrop.y + EvDy
    /\ cropRegion.x = interaction.startCrop.x

\* C16: in a resize gesture on a handle that contains the west (north) edge,
\* a pointer-move whose proposed width (height) is below the minimum leaves x
\* and width (y and height) at the values they had before that pointer-move.
C16_NoJump ==
    [][\A cx \in DragPositions, cy \in DragPositions :
        (handleGlobalMove(cx, cy) /\ isSetupMode /\ interaction.type = "resizing")
        => /\ (Includes(interaction.handle, "w")
                /\ interaction.startCrop.width
                        - (cx - interaction.startMouse.x) * videoScale < minSize)
               => /\ cropRegion'.x = cropRegion.x
                  /\ cropRegion'.width = cropRegion.width
           /\ (Includes(interaction.handle, "n")
                /\ interaction.startCrop.height
                        - (cy - interaction.startMouse.y) * videoScale < minSize)
               => /\ cropRegion'.y = cropRegion.y
                  /\ cropRegion'.height = cropRegion.height]_vars

\* C17: a pointer-move while moving puts the crop at the snapshot position
\* plus the scaled displacement, clamped, with x in [0, sourceWidth - width]
\* and y in [0, sourceHeight - height], and keeps the snapshot's width and
\* height.
C17_MoveClamped ==
    (ev.op = "GlobalMove" /\ isSetupMode /\ interaction.type = "moving") =>
        /\ cropRegion = MovedCrop(interaction.startCrop, EvDx, EvDy, videoDim)
        /\ cropRegion.width = interaction.startCrop.width
        /\ cropRegion.height = interaction.startCrop.height
        /\ 0 <= cropRegion.x /\ cropRegion.x <= videoDim.w - cropRegion.width
        /\ 0 <= cropRegion.y /\ cropRegion.y <= videoDim.h - cropRegion.height

\* C18: after a pointer-move of a resize gesture every edge the handle does
\* not name is where it was in the snapshot: x without w, y without n, the
\* east edge x + width without e, the south edge y + height without s.
C18_UnnamedEdgesFixed ==
    ResizeMovedAny =>
        /\ ~Includes(interaction.handle, "w") => cropRegion.x = interaction.startCrop.x
        /\ ~Includes(interaction.handle, "n") => cropRegion.y = interaction.startCrop.y
        /\ ~Includes(interaction.handle, "e")
            => cropRegion.x + cropRegion.width
                    = interaction.startCrop.x + interaction.startCrop.width
        /\ ~Includes(interaction.handle, "s")
            => cropRegion.y + cropRegion.height
                    = interaction.startCrop.y + interaction.startCrop.height

\* A pointer-move on nw that moved both the west and the north edge.
C18_Witness ==
    /\ ResizeMovedAny
    /\ interaction.handle = "nw"
    /\ cropRegion.x # interaction.startCrop.x
    /\ cropRegion.y # interaction.startCrop.y
    /\ cropRegion.width # interaction.startCrop.width
    /\ cropRegion.height # interaction.startCrop.height

(***************************************************************************)
(* The main view: drawing on the canvas.                                   *)
(***************************************************************************)
DrawInit ==
    /\ videoDim = [w |-> 1920, h |-> 1080]
    /\ videoScale = 1
    /\ cropRegion = INITIAL_CROP
    /\ interaction = IdleInteraction
    /\ isSetupMode = TRUE
    /\ gestures = 0
    /\ ev = [op |-> "Init", x |-> 0, y |-> 0]
    /\ containerSize = [w |-> 800, h |-> 600]
    /\ ctxAvail = TRUE
    /\ CanvasUnmounted
    /\ ServicesIdle

DrawNext ==
    \/ Confirm
    \/ Adjust
    \/ RenderTick
    \/ \E px \in ClickXs, py \in ClickYs : handleMouseDown(px, py)
    \/ \E px \in MoveXs, py \in ClickYs : handleMouseMove(px, py)
    \/ handleMouseUp("MouseUp")
    \/ handleMouseUp("MouseLeave")
    \/ Clear
    \/ \E t \in Tools : SetActiveTool(t)

SpecDraw == DrawInit /\ [][DrawNext]_vars

(***************************************************************************)
(* The main view with pointer-moves whose state update React renders       *)
(* either before the next event or later (mousemove updates are rendered   *)
(* after the handler has returned, so the next event can come first).      *)
(***************************************************************************)
StrokeNext ==
    \/ Confirm
    \/ RenderTick
    \/ ContainerResize(600, 600)
    \/ handleMouseDown(400, 300)
    \/ handleMouseMove(50, 300)
    \/ handleMouseMoveDeferred(50, 300)
    \/ RenderQueued
    \/ handleMouseUp("MouseUp")
    \/ \E t \in Tools : SetActiveTool(t)

SpecStroke == DrawInit /\ [][StrokeNext]_vars

(***************************************************************************)
(* The main view with the whole toolbar and the clock, the pointer at one  *)
(* position per kind of event.                                             *)
(***************************************************************************)
ToolsNext ==
    \/ Confirm
    \/ Adjust
    \/ RenderTick
    \/ handleMouseDown(400, 300)
    \/ handleMouseMove(50, 300)
    \/ handleMouseUp("MouseUp")
    \/ Clear
    \/ \E t \in Tools : SetActiveTool(t)
    \/ \E c \in Colors : SetSelectedColor(c)
    \/ ClockTick

SpecTools == DrawInit /\ [][ToolsNext]_vars

(***************************************************************************)
(* The main view with the Scan button: analyses, their alerts and the hide  *)
(* timers, time passing in seconds.                                        *)
(***************************************************************************)
AnalysisNext ==
    \/ Confirm
    \/ Adjust
    \/ handleAnalyze
    \/ \E r \in Responses : AnalysisSettles(r)
    \/ HideTimerFires
    \/ Second

SpecAnalysis == DrawInit /\ [][AnalysisNext]_vars

\* The remote call settles: the promise generateContent returns is
\* fulfilled or rejected in the end.
SpecAnalysisLive == SpecAnalysis /\ WF_vars(\E r \in Responses : AnalysisSettles(r))

(***************************************************************************)
(* The background controller: game events and the window calls they start. *)
(***************************************************************************)
BackgroundNext ==
    \/ \E isRunning \in BOOLEAN, supported \in BOOLEAN : toggleWindows(isRunning, supported)
    \/ \E n \in 1..MaxGameEvents, w \in Windows, k \in {"restore", "close"} :
            WindowOpRuns([n |-> n, win |-> w, kind |-> k])

SpecBackground == DrawInit /\ [][BackgroundNext]_vars

(***************************************************************************)
(* The render loop over surfaces and crop regions of any size.             *)
(***************************************************************************)
\* Sizes of the container and of the crop region (the crop region is read
\* from local storage at start-up, so any size can occur).
SurfaceDims == (0..MaxDim) \cup {600, 800}
CropDims == (0..MaxDim) \cup {300}

SurfaceInit ==
    /\ videoDim = [w |-> 1920, h |-> 1080]
    /\ videoScale = 1
    /\ cropRegion \in {[x |-> 0, y |-> 0, width |-> w, height |-> h] :
                            w \in CropDims, h \in CropDims}
    /\ interaction = IdleInteraction
    /\ isSetupMode = TRUE
    /\ gestures = 0
    /\ ev = [op |-> "Init", x |-> 0, y |-> 0]
    /\ containerSize \in {[w |-> w, h |-> h] : w \in SurfaceDims, h \in SurfaceDims}
    /\ ctxAvail \in BOOLEAN
    /\ CanvasUnmounted
    /\ ServicesIdle

SurfaceNext ==
    \/ Confirm
    \/ Adjust
    \/ RenderTick
    \/ \E w \in SurfaceDims, h \in SurfaceDims : ContainerResize(w, h)
    \/ SurfaceReady

SpecSurface == SurfaceInit /\ [][SurfaceNext]_vars

(***************************************************************************)
(* A session: the crop editor, Confirm and Adjust, and the pointer events  *)
(* of the canvas.                                                          *)
(***************************************************************************)
SessionInit ==
    /\ videoDim = [w |-> 1920, h |-> 1080]
    /\ videoScale = 1
    /\ cropRegion = INITIAL_CROP
    /\ interaction = IdleInteraction
    /\ isSetupMode = TRUE
    /\ gestures = 0
    /\ ev = [op |-> "Init", x |-> 0, y |-> 0]
    /\ containerSize = [w |-> 800, h |-> 600]
    /\ ctxAvail = TRUE
    /\ CanvasUnmounted
    /\ ServicesIdle

SessionNext ==
    \/ handleMouseDownBox(0, 0)
    \/ \E h \in {"nw", "se"} : handleMouseDownHandle(h, 0, 0)
    \/ \E x \in PointerXs : handleGlobalMove(x, 0)
    \/ handleGlobalUp
    \/ Confirm
    \/ Adjust
    \/ handleMouseDown(400, 300)
    \/ handleMouseMove(50, 300)
    \/ handleMouseUp("MouseUp")

SpecSession == SessionInit /\ [][SessionNext]_vars

(***************************************************************************)
(* Annotations across crop edits: strokes and markers are drawn, then the  *)
(* crop region is moved and resized in the setup view.                     *)
(***************************************************************************)
KeepNext ==
    \/ handleMouseDownBox(0, 0)
    \/ handleMouseDownHandle("se", 0, 0)
    \/ handleGlobalMove(190, 0)
    \/ handleGlobalUp
    \/ Confirm
    \/ Adjust
    \/ handleMouseDown(400, 300)
    \/ handleMouseMove(50, 300)
    \/ handleMouseUp("MouseUp")
    \/ \E t \in Tools : SetActiveTool(t)

SpecKeep == SessionInit /\ [][KeepNext]_vars

\* A step of the crop editor: a pointer-down on the box or a handle, a
\* pointer-move or a pointer-up of the window.
CropEditStep ==
    \/ \E x \in PointerXs, y \in PointerYs : handleMouseDownBox(x, y)
    \/ \E h \in Handles, x \in PointerXs, y \in PointerYs : handleMouseDownHandle(h, x, y)
    \/ \E x \in PointerXs, y \in PointerYs : handleGlobalMove(x, y)
    \/ handleGlobalUp

\* C26: the steps of a crop gesture (move or resize), entering the setup
\* view and confirming leave the committed strokes and the markers, with
\* their stored normalized coordinates and their order, unchanged.
C26_CropKeepsAnnotations ==
    [][(CropEditStep \/ Adjust \/ Confirm)
        => (drawings' = drawings /\ markers' = markers)]_vars

\* The crop region was resized in the setup view after a stroke had been
\* committed and a marker placed; both are still stored.
C26_Witness ==
    /\ ev.op = "GlobalMove"
    /\ isSetupMode
    /\ cropRegion # INITIAL_CROP
    /\ Len(drawings) = 1
    /\ Len(markers) >= 1

\* C28: within a gesture the crop region after a pointer-move depends only
\* on the snapshot taken at pointer-down and on the pointer position (so two
\* gestures with the same snapshot ending at the same position agree), and
\* a pointer-move back to the pointer-down position restores the snapshot.
C28_SnapshotFunction ==
    /\ [][\A x \in PointerXs, y \in PointerYs :
            (handleGlobalMove(x, y) /\ interaction.type # "idle" /\ isSetupMode)
            => cropRegion' = NewCrop(interaction, x, y, videoDim, videoScale)]_vars
    /\ [][\A x \in PointerXs, y \in PointerYs :
            (handleGlobalMove(x, y) /\ interaction.type # "idle" /\ isSetupMode
                /\ x = interaction.startMouse.x /\ y = interaction.startMouse.y)
            => cropRegion' = interaction.startCrop]_vars

(***************************************************************************)
(* Claims about a session (SpecSession).                                   *)
(***************************************************************************)
\* C11: while a gesture is active (moving or resizing) the pointer-up is
\* observed, in the setup view or outside it; every pointer-up returns the
\* interaction to idle, also right after the pointer-down; and a pointer-move
\* in state idle leaves the crop region as it was.
C11_GestureEnds ==
    /\ [](interaction.type # "idle" => ENABLED handleGlobalUp)
    /\ [][handleGlobalUp => interaction'.type = "idle"]_vars
    /\ [][(interaction.type = "idle"
            /\ \E x \in PointerXs, y \in PointerYs : handleGlobalMove(x, y))
          => cropRegion' = cropRegion]_vars

\* A gesture that started in the setup view was ended by a pointer-up after
\* the view was replaced, with no pointer-move in between.
C11_Witness ==
    /\ ev.op = "GlobalUp"
    /\ interaction.type = "idle"
    /\ ~isSetupMode
    /\ cropRegion = interaction.startCrop

\* C13: from the confirmation of the crop until setup mode is entered again
\* no step (pointer-down, pointer-move or pointer-up, on the canvas or on the
\* window) changes the crop region, also when a gesture was still active at
\* the confirmation.
C13_ConfirmedCropReadOnly == [][~isSetupMode => cropRegion' = cropRegion]_vars

\* A pointer-move of a gesture still active after the confirmation, at a
\* position that would have changed the crop region in the setup view.
C13_Witness ==
    /\ ev.op = "GlobalMove"
    /\ ~isSetupMode
    /\ interaction.type # "idle"
    /\ NewCrop(interaction, ev.x, ev.y, videoDim, videoScale) # cropRegion

(***************************************************************************)
(* Claims about drawing (SpecDraw).                                        *)
(***************************************************************************)
\* A pointer-up or pointer-leave of the canvas that finds a stroke in
\* progress with the pen active: the commit.
CommitStep ==
    /\ handleMouseUp("MouseUp") \/ handleMouseUp("MouseLeave")
    /\ isDrawing
    /\ activeTool = "PEN"

StrokesHaveTwoPoints == \A i \in 1..Len(drawings) : Len(drawings[i].points) >= 2

NonEmptyPlacement(rr) ==
    /\ IsFin(rr.x) /\ IsFin(rr.y) /\ IsFin(rr.w) /\ IsFin(rr.h)
    /\ ~IsZero(rr.w)
    /\ ~IsZero(rr.h)

\* C5: a pointer-down at canvas pixel (px, py) with the marker tool active
\* and a non-empty placement adds exactly one marker, of kind danger, at
\* ((px - offsetX) / drawWidth, (py - offsetY) / drawHeight), and changes
\* neither the committed strokes nor the stroke in progress.
C5_MarkerPlaced ==
    [][\A px \in ClickXs, py \in ClickYs :
        (handleMouseDown(px, py) /\ activeTool = "MARKER" /\ NonEmptyPlacement(renderRect))
        => /\ Len(markers') = Len(markers) + 1
           /\ SubSeq(markers', 1, Len(markers)) = markers
           /\ markers'[Len(markers')].type = "danger"
           /\ markers'[Len(markers')].x = JDiv(JSub(Num(px), renderRect.x), renderRect.w)
           /\ markers'[Len(markers')].y = JDiv(JSub(Num(py), renderRect.y), renderRect.h)
           /\ drawings' = drawings
           /\ currentPath' = currentPath
           /\ isDrawing' = isDrawing]_vars

\* A marker was just placed at the centre of the map while a stroke was in
\* progress.
C5_Witness ==
    /\ ev = [op |-> "MouseDown", x |-> 400, y |-> 300]
    /\ activeTool = "MARKER"
    /\ Len(markers) = 1
    /\ markers[1].x = Fin(1, 2)
    /\ markers[1].y = Fin(1, 2)
    /\ isDrawing
    /\ Len(currentPath) = 1

\* C6: the clear action leaves the committed strokes and the markers empty
\* and the stroke in progress (pending points, in-progress status) as it was.
C6_ClearAll ==
    [][Clear => /\ drawings' = <<>>
                /\ markers' = <<>>
                /\ currentPath' = currentPath
                /\ isDrawing' = isDrawing]_vars

\* Clear ran while a stroke was in progress.
C6_Witness ==
    /\ ev.op = "Clear"
    /\ isDrawing
    /\ Len(currentPath) >= 1
    /\ drawings = <<>>
    /\ markers = <<>>

\* C20: a pointer-up or pointer-leave of the canvas that finds a stroke in
\* progress ends it: afterwards no stroke is in progress and the pending
\* points are empty, whatever the length of the stroke and whatever tool or
\* colour is selected.
C20_StrokeAlwaysEnds ==
    [][((handleMouseUp("MouseUp") \/ handleMouseUp("MouseLeave")) /\ isDrawing)
        => (~isDrawing' /\ currentPath' = <<>>)]_vars

\* The point a pointer event at canvas pixel (px, py) converts to under the
\* placement rr, without any clamping.
UnclampedPoint(px, py, rr) ==
    [x |-> JDiv(JSub(Num(px), rr.x), rr.w), y |-> JDiv(JSub(Num(py), rr.y), rr.h)]

\* C22: a pointer-move on the canvas changes neither the stroke in progress
\* nor the committed strokes nor the markers unless a stroke is in progress
\* and the pen is active; a pointer-down with the marker tool never begins a
\* stroke; a pointer-down with the pen sets the stroke in progress to exactly
\* the clicked point and adds no marker.
C22_PointerEffects ==
    /\ [][\A px \in MoveXs, py \in ClickYs :
            (handleMouseMove(px, py) /\ ~(isDrawing /\ activeTool = "PEN"))
            => UNCHANGED <<isDrawing, currentPath, drawings, markers>>]_vars
    /\ [][\A px \in ClickXs, py \in ClickYs :
            (handleMouseDown(px, py) /\ activeTool = "MARKER")
            => UNCHANGED <<isDrawing, currentPath, drawings>>]_vars
    /\ [][\A px \in ClickXs, py \in ClickYs :
            (handleMouseDown(px, py) /\ activeTool = "PEN"
                /\ NonEmptyPlacement(renderRect))
            => /\ isDrawing'
               /\ currentPath' = <<UnclampedPoint(px, py, renderRect)>>
               /\ UNCHANGED <<markers, drawings>>]_vars

\* The pointer moved over the canvas with the marker tool active while a
\* stroke begun with the pen was still in progress, after a marker had been
\* placed during that stroke.
C22_Witness ==
    /\ ev.op = "MouseMove"
    /\ activeTool = "MARKER"
    /\ isDrawing
    /\ Len(currentPath) = 1
    /\ Len(markers) = 1

\* A canvas pixel in the bars around the placement rr.
InBars(px, py, rr) ==
    \/ JGt(rr.x, Num(px))
    \/ JGt(Num(px), JAdd(rr.x, rr.w))
    \/ JGt(rr.y, Num(py))
    \/ JGt(Num(py), JAdd(rr.y, rr.h))

\* A normalized point with a coordinate outside [0, 1].
OutsideUnit(p) ==
    \/ JGt(Num(0), p.x)
    \/ JGt(p.x, Num(1))
    \/ JGt(Num(0), p.y)
    \/ JGt(p.y, Num(1))

\* C23: a pointer-down or pointer-move at a canvas pixel in the letterbox or
\* pillarbox bars stores, in the marker or stroke point, the unclamped
\* normalized coordinate, which lies outside [0, 1].
C23_NoClamping ==
    /\ [][\A px \in ClickXs, py \in ClickYs :
            (handleMouseDown(px, py) /\ NonEmptyPlacement(renderRect)
                /\ InBars(px, py, renderRect))
            => LET p == UnclampedPoint(px, py, renderRect)
               IN  /\ OutsideUnit(p)
                   /\ activeTool = "MARKER" =>
                        /\ Len(markers') = Len(markers) + 1
                        /\ markers'[Len(markers')].x = p.x
                        /\ markers'[Len(markers')].y = p.y
                   /\ activeTool = "PEN" => currentPath' = <<p>>]_vars
    /\ [][\A px \in MoveXs, py \in ClickYs :
            (handleMouseMove(px, py) /\ isDrawing /\ activeTool = "PEN"
                /\ NonEmptyPlacement(renderRect) /\ InBars(px, py, renderRect))
            => LET p == UnclampedPoint(px, py, renderRect)
               IN  /\ OutsideUnit(p)
                   /\ currentPath' = Append(currentPath, p)]_vars

\* A marker placed in the left bar and a committed stroke with a point in
\* the left bar are stored with a negative x.
C23_Witness ==
    /\ Len(markers) >= 1
    /\ JGt(Num(0), markers[1].x)
    /\ Len(drawings) >= 1
    /\ \E i \in 1..Len(drawings[1].points) : JGt(Num(0), drawings[1].points[i].x)

(***************************************************************************)
(* Claims about pointer-moves rendered late (SpecStroke).                   *)
(***************************************************************************)
\* The points delivered to the stroke in progress: the point of the
\* pointer-down and of every pointer-move since, rendered or still queued.
DeliveredPoints == currentPath \o queued

\* C21: a commit stores exactly the point of the pointer-down followed by
\* the point of every pointer-move delivered since, in delivery order,
\* also when the pointer-up comes right after the last pointer-moves.
C21_AllPointsCommitted ==
    [][(CommitStep /\ Len(DeliveredPoints) >= 2)
        => /\ Len(drawings') = Len(drawings) + 1
           /\ drawings'[Len(drawings')].points = DeliveredPoints]_vars

C27_AlertShownFiveSeconds ==
    /\ [](latestAlert.age <= HideDelay)
    /\ [][(HideTimerFires /\ latestAlert.n # 0) => latestAlert.age = HideDelay]_vars

\* C30: a started analysis finishes (isAnalyzing, once true, becomes false
\* again) whatever the remote call gives, and a null result of
\* analyzeMapSnapshot sets no alert and no hide timer.
C30_AnalysisFinishes ==
    /\ isAnalyzing ~> ~isAnalyzing
    /\ [][\A r \in Responses :
            (AnalysisSettles(r) /\ analyzeMapSnapshot(r) = {})
            => (latestAlert' = latestAlert /\ hideTimers' = hideTimers)]_vars
    /\ [][\A r \in Responses : AnalysisSettles(r) => ~isAnalyzing']_vars

\* A second analysis has ended with a rejected remote call while the alert
\* of the first was on display: scanning is enabled again and the alert on
\* display is still that of the first analysis.
C30_Witness ==
    /\ ev.op = "AnalysisSettles"
    /\ request.response = "error"
    /\ ~isAnalyzing
    /\ analyses = 2
    /\ latestAlert.n = 1

(***************************************************************************)
(* Claims about the background controller (SpecBackground).                *)
(***************************************************************************)
\* C29: once every window call started by the game events of the supported
\* game has run, exactly one window is shown: the in-game window if the last
\* event was game-started, the desktop window if it was game-ended.
C29_OneWindowShown ==
    (windowOps = {} /\ lastGameEvent # "none")
    => windowShown = [desktop |-> lastGameEvent = "ended",
                      in_game |-> lastGameEvent = "started"]

(***************************************************************************)
(* Claims about the toolbar, the clock and the loop (SpecTools).           *)
(***************************************************************************)
\* C12: the markers of the collection have pairwise distinct identifiers.
C12_DistinctIds ==
    \A i \in 1..Len(markers), j \in 1..Len(markers) :
        i # j => markers[i].id # markers[j].id

\* C14: while the view is mounted at most one render-tick callback is
\* pending, across every restart of the loop; once the view is unmounted no
\* callback is pending, so no tick runs or is scheduled again.
C14_OnePendingTick ==
    /\ mounted => Cardinality(rafPending) <= 1
    /\ ~mounted => rafPending = {}

\* The view was unmounted after the loop had been restarted by a committed
\* stroke, a marker and a change of colour.
C14_Witness ==
    /\ ev.op = "Adjust"
    /\ ~mounted
    /\ rafPending = {}
    /\ Len(drawings) >= 1
    /\ Len(markers) >= 1
    /\ selectedColor # "#ef4444"

\* C24: every step other than the clear action leaves each committed stroke
\* and each marker at its position in its collection with all its fields
\* (points, colour, width; id, position, kind) unchanged: the collections
\* only grow at the end, under pointer events, tool changes and colour
\* changes alike.
C24_AppendOnly ==
    [][Clear \/ (IsPrefix(drawings, drawings') /\ IsPrefix(markers, markers'))]_vars

\* The colour was changed after a stroke had been committed and two markers
\* placed, and the stroke keeps the colour it was drawn with.
C24_Witness ==
    /\ ev.op = "SetSelectedColor"
    /\ Len(drawings) = 1
    /\ drawings[1].color # selectedColor
    /\ Len(markers) = 2

(***************************************************************************)
(* Claims about the placement and the render loop (SpecSurface).           *)
(***************************************************************************)
\* Normalized coordinates the round trip is tried on, inside and outside [0,1].
NormCoords == {Num(0), Fin(1, 2), Num(1), Fin(1, 3), Fin(-1, 4), Fin(5, 4)}
NormPoints == {[x |-> a, y |-> b] : a \in NormCoords, b \in NormCoords}

\* A tick has drawn on a surface and a crop region of positive size.
PositiveFrame ==
    /\ mounted
    /\ drawn = "frame"
    /\ canvasSize.w > 0 /\ canvasSize.h > 0
    /\ cropRegion.width > 0 /\ cropRegion.height > 0

ExampleRect == [x |-> Num(100), y |-> Num(0), w |-> Num(600), h |-> Num(600)]

\* C7: for positive surface and crop sizes the placement of a render tick is
\* contained in the surface, centred, touches both vertical or both
\* horizontal edges of the surface and has the aspect ratio of the crop; for
\* a surface of 800x600 and a 300x300 crop it is {100, 0, 600, 600}.
C7_AspectFit ==
    PositiveFrame =>
        LET rr == renderRect
            W == Num(canvasSize.w)
            H == Num(canvasSize.h)
        IN  /\ JLe(Num(0), rr.x) /\ JLe(Num(0), rr.y)
            /\ JLe(JAdd(rr.x, rr.w), W) /\ JLe(JAdd(rr.y, rr.h), H)
            /\ JEq(JAdd(JAdd(rr.x, rr.w), rr.x), W)
            /\ JEq(JAdd(JAdd(rr.y, rr.h), rr.y), H)
            /\ \/ JEq(rr.x, Num(0)) /\ JEq(rr.w, W)
               \/ JEq(rr.y, Num(0)) /\ JEq(rr.h, H)
            /\ JEq(JDiv(rr.w, rr.h), JDiv(Num(cropRegion.width), Num(cropRegion.height)))
            /\ (canvasSize = [w |-> 800, h |-> 600]
                    /\ cropRegion.width = 300 /\ cropRegion.height = 300)
                => rr = ExampleRect

\* The example of C7 has been rendered.
C7_Witness ==
    /\ PositiveFrame
    /\ canvasSize = [w |-> 800, h |-> 600]
    /\ cropRegion.width = 300 /\ cropRegion.height = 300
    /\ renderRect = ExampleRect

\* C8: with a published placement of non-zero size, converting a normalized
\* point to canvas pixels (toScreen) and the pointer at that pixel back
\* (getNormalizedPoint) yields the point again; with {100, 0, 600, 600} the
\* pixel (400, 300) maps to (1/2, 1/2).
C8_RoundTrip ==
    (mounted /\ NonEmptyPlacement(renderRect)) =>
        /\ \A p \in NormPoints :
              LET sp == toScreen(p, renderRect)
              IN  getNormalizedPoint(JAdd(sp.x, Num(RectLeft)), JAdd(sp.y, Num(RectTop)),
                                     renderRect) = {p}
        /\ renderRect = ExampleRect
              => getNormalizedPoint(Num(400 + RectLeft), Num(300 + RectTop), renderRect)
                    = {[x |-> Fin(1, 2), y |-> Fin(1, 2)]}

\* A letterboxed placement (bars above and below, fractional offset) on which
\* the point (1/3, 5/4) goes to the screen and back.
C8_Witness ==
    /\ mounted
    /\ NonEmptyPlacement(renderRect)
    /\ JGt(renderRect.y, Num(0))
    /\ renderRect.y.d # 1
    /\ LET p == [x |-> Fin(1, 3), y |-> Fin(5, 4)]
           sp == toScreen(p, renderRect)
       IN  /\ sp # p
           /\ getNormalizedPoint(JAdd(sp.x, Num(RectLeft)), JAdd(sp.y, Num(RectTop)),
                                 renderRect) = {p}

\* C9: while the view is mounted the loop always has its next tick scheduled,
\* whether or not the surface was available when the loop started.
C9_NextTickScheduled == mounted => rafPending # {}

\* The crop region or the surface has zero width or height.
Degenerate ==
    \/ cropRegion.width = 0 \/ cropRegion.height = 0
    \/ canvasSize.w = 0 \/ canvasSize.h = 0

\* C10: a render tick on a zero-sized crop region or surface draws nothing
\* and publishes no placement computed by a division by zero.
C10_DegenerateSkipped ==
    (mounted /\ animationFrameId # 0 /\ Degenerate) =>
        /\ drawn # "frame"
        /\ ~PlacementDividesByZero(Num(canvasSize.w), Num(canvasSize.h),
                                   Num(cropRegion.width), Num(cropRegion.height))

\* C19: whenever a pointer event can be converted to a normalized point (the
\* view is mounted and a placement of non-zero size is published), the
\* placement the conversion uses is the one computed from the current size
\* of the surface and the current crop region, also right after the surface
\* was resized to another positive size.
C19_PlacementCurrent ==
    (mounted /\ NonEmptyPlacement(renderRect)
            /\ containerSize.w > 0 /\ containerSize.h > 0) =>
        renderRect = Placement(Num(containerSize.w), Num(containerSize.h),
                               Num(cropRegion.width), Num(cropRegion.height))

====
